---- MODULE Spec2Model ----
(***************************************************************************)
(* State-machine model of src/src/utils/PasswordGenerator.ts: the          *)
(* PasswordGenerator object, the DOM elements it reads and writes, and the *)
(* event handlers wired to them.                                           *)
(*                                                                         *)
(* Strings are sequences of character codes (UTF-16 code units), so that   *)
(* String.fromCharCode, toUpperCase, Number.toString and parseInt are      *)
(* computed and not assumed: "aZ0" is <<97, 90, 48>>, "" is <<>>.          *)
(* Labels and colours, which the program only copies, are TLA+ strings.    *)
(***************************************************************************)
EXTENDS Integers, Sequences, FiniteSets, TLC

(***************************************************************************)
(* Bounds of the model.                                                    *)
(***************************************************************************)
\* largest value the length slider takes in Spec
MaxSlider == 1
\* largest charLength the generation is run with in SpecGen
MaxLen == 3
\* most deferred reverts scheduled and not yet fired
MaxPending == 2

(***************************************************************************)
(* Program constants.                                                      *)
(***************************************************************************)
\* enum PasswordStrengths { weak, medium, strong, veryStrong }
PasswordStrengths == 0..3

\* strengthProbs with the number and letter percentages of weak exchanged
strengthProbsWeakExchanged ==
    (0 :> [number |-> 100, symbol |-> 5, letter |-> 90,  barColor |-> "green"])  @@
    (1 :> [number |-> 80, symbol |-> 20, letter |-> 75,  barColor |-> "yellow"]) @@
    (2 :> [number |-> 60, symbol |-> 40, letter |-> 30,  barColor |-> "orange"]) @@
    (3 :> [number |-> 10, symbol |-> 80, letter |-> 10,  barColor |-> "red"])

strengthProbs ==
    (0 :> [number |-> 90, symbol |-> 5,  letter |-> 100, barColor |-> "green"])  @@
    (1 :> [number |-> 80, symbol |-> 20, letter |-> 75,  barColor |-> "yellow"]) @@
    (2 :> [number |-> 60, symbol |-> 40, letter |-> 30,  barColor |-> "orange"]) @@
    (3 :> [number |-> 10, symbol |-> 80, letter |-> 10,  barColor |-> "red"])

strengthTitles ==
    (0 :> "WEAK") @@ (1 :> "MEDIUM") @@ (2 :> "STRONG") @@ (3 :> "EXTREME")

\* The characters of the string literal
\*   "/[!@#$%^&*()_+\-=\[\]{};':\\|,.<>\/?]+/"
\* after JavaScript's escape processing (\- \[ \] \/ are the bare character,
\* \\ is one backslash):  /[!@#$%^&*()_+-=[]{};':\|,.<>/?]+/
symbols ==
    << 47, 91, 33, 64, 35, 36, 37, 94, 38, 42, 40, 41, 95, 43, 45, 61, 91,
       93, 123, 125, 59, 39, 58, 92, 124, 44, 46, 60, 62, 47, 63, 93, 43, 47 >>

\* new PasswordGenerator(7, dom)
CtorCharLength == 7

(***************************************************************************)
(* Character classes of a code unit (ASCII).                               *)
(***************************************************************************)
IsUpper(c) == c \in 65..90
IsLower(c) == c \in 97..122
IsDigit(c) == c \in 48..57
IsLetter(c) == IsUpper(c) \/ IsLower(c)
IsSymbol(c) == c \in 33..126 /\ ~IsLetter(c) /\ ~IsDigit(c)

(***************************************************************************)
(* Library functions the program calls.                                    *)
(***************************************************************************)
\* Math.round(Math.random() * n): Math.random() is in [0, 1), so the result
\* is any integer of 0..n
RandInt(n) == 0..n

\* String.prototype.toUpperCase on one ASCII code unit
toUpperCase(c) == IF c \in 97..122 THEN c - 32 ELSE c

\* Number.prototype.toString of a non-negative integer, in decimal
RECURSIVE toString(_)
toString(n) ==
    IF n < 10 THEN << 48 + n >> ELSE Append(toString(n \div 10), 48 + (n % 10))

\* parseInt of a string that starts with a decimal digit: the value of its
\* longest prefix of digits
RECURSIVE parseDigits(_, _, _)
parseDigits(s, k, acc) ==
    IF k > Len(s) \/ ~IsDigit(s[k]) THEN acc
    ELSE parseDigits(s, k + 1, 10 * acc + (s[k] - 48))

parseInt(s) == parseDigits(s, 1, 0)

(***************************************************************************)
(* The DOM the program is bound to (index.html is not part of the sources: *)
(* four strength bars whose values are the four ordinals, four checkboxes  *)
(* with ids "0".."3", a range slider of non-negative integers, and empty   *)
(* text elements).                                                         *)
(***************************************************************************)
\* dom.strengthLevels: the value of each bar, in document order
strengthLevels == << 0, 1, 2, 3 >>

\* the values the slider takes, as the strings its .value returns: the two
\* ends of its range
SliderValues == { toString(0), toString(MaxSlider) }

\* the ordinals a direct caller of setPasswordStrength may pass
Ordinals == -1..4

(***************************************************************************)
(* Random draws that only select which character of a class is emitted are *)
(* sampled (the first and last letter, the last symbol, the last digit);   *)
(* draws that decide a branch (the case, the number/symbol choice, the     *)
(* selector) range over all of RandInt.                                    *)
(***************************************************************************)
LetterDraws == { 0, 25 }
SymbolDraws == { Len(symbols) - 1 }
DigitDraws == { 9 }

VARIABLES
    \* fields of PasswordGenerator
    charLength, passwordParts, strength,
    \* DOM state
    checkboxes, lengthSlider, passLength, strengthDesc, barColor, passRes,
    outputted,
    \* deferred reverts scheduled by setTimeout and not yet fired
    pending,
    \* effects of the handler that ran last: the strings it wrote to the
    \* clipboard, the number of alerts it raised, whether it threw
    clipWrites, alerts, thrown,
    \* position and locals of a generatePassword call in progress
    pc, i, password, letterChosen, numOrSymbol, choice

config == << charLength, passwordParts, strength >>
domVars == << checkboxes, lengthSlider, passLength, strengthDesc, barColor,
              passRes, outputted >>
effectVars == << clipWrites, alerts, thrown >>
genVars == << pc, i, password, letterChosen, numOrSymbol, choice >>
vars == << config, domVars, pending, effectVars, genVars >>

(***************************************************************************)
(* chooseLetter, chooseNumOrSymbol and the choice of generatePassword, as  *)
(* functions of the values Math.random() produced.                         *)
(***************************************************************************)
\* chooseLetter: neither case is allowed, the candidate is ""
noLetter(parts) == ~parts[0] /\ ~parts[1]

\* chooseLetter: the loop `while (!this.passwordParts[choice])` exits
caseAccepted(parts, c) == parts[c]

\* chooseLetter: the letter returned for the accepted case c and the draw k
letterOf(c, k) ==
    LET randomLetter == 97 + k
    IN  IF c = 1 THEN << randomLetter >> ELSE << toUpperCase(randomLetter) >>

\* noNumOrSymbol reading the toggles one index too low
noNumOrSymbolShifted(parts) == ~parts[1] /\ ~parts[2]

\* chooseNumOrSymbol: neither numbers nor symbols are allowed
noNumOrSymbol(parts) == ~parts[2] /\ ~parts[3]

\* choiceAccepted with the toggles of numbers and symbols exchanged
choiceAcceptedSwapped(st, parts, c) ==
    \/ (c <= strengthProbs[st].symbol /\ parts[2])
    \/ (c > strengthProbs[st].symbol /\ parts[3])

\* chooseNumOrSymbol: the condition under which `while (true)` breaks
choiceAccepted(st, parts, c) ==
    \/ (c <= strengthProbs[st].symbol /\ parts[3])
    \/ (c > strengthProbs[st].symbol /\ parts[2])

\* chooseNumOrSymbol: the character returned for the accepted choice c
numOrSymbolOf(st, c, symbolIndex, randomNum) ==
    IF c <= strengthProbs[st].symbol
    THEN << symbols[symbolIndex + 1] >>
    ELSE toString(randomNum)

\* appended without the tests for an empty candidate
appendedUnguarded(st, sel, letter, numSym) ==
    IF sel <= strengthProbs[st].letter THEN letter ELSE numSym

\* appended with the selector compared by < and not <=
appendedStrict(st, sel, letter, numSym) ==
    IF (sel < strengthProbs[st].letter /\ letter # << >>) \/ numSym = << >>
    THEN letter
    ELSE numSym

\* generatePassword: what `password +=` appends for the selector sel and the
\* two candidates
appended(st, sel, letter, numSym) ==
    IF (sel <= strengthProbs[st].letter /\ letter # << >>) \/ numSym = << >>
    THEN letter
    ELSE numSym

(***************************************************************************)
(* The same functions lifted to the set of their possible results, for the *)
(* handler taken as one step.                                              *)
(***************************************************************************)
LetterCandidates(parts) ==
    IF noLetter(parts) THEN { << >> }
    ELSE { letterOf(c, k) :
             c \in { x \in RandInt(1) : caseAccepted(parts, x) },
             k \in LetterDraws }

NumOrSymbolCandidates(st, parts) ==
    IF noNumOrSymbol(parts) THEN { << >> }
    ELSE UNION { { numOrSymbolOf(st, c, x, d) : x \in SymbolDraws, d \in DigitDraws } :
                   c \in { y \in RandInt(99) : choiceAccepted(st, parts, y) } }

\* the contributions one iteration of the loop can append
PositionOutcomes(st, parts) ==
    UNION { { appended(st, sel, l, n) : sel \in RandInt(99) } :
              l \in LetterCandidates(parts), n \in NumOrSymbolCandidates(st, parts) }

\* n iterations of a loop whose iteration appends one element of step
RECURSIVE Repeated(_, _)
Repeated(n, step) ==
    IF n <= 0 THEN { << >> }
    ELSE { pair[1] \o pair[2] : pair \in Repeated(n - 1, step) \X step }

\* the passwords `for (let i = 0; i < this.charLength; i++)` can build
Generated(n, st, parts) == Repeated(n, PositionOutcomes(st, parts))

(***************************************************************************)
(* setPasswordStrength, selectCheckBox, setCharacterLength.                *)
(***************************************************************************)
\* this.dom.strengthDesc.textContent = this.strengthTitles[strength]:
\* assigning undefined to textContent leaves the element empty
titleText(s) == IF s \in DOMAIN strengthTitles THEN strengthTitles[s] ELSE ""

\* paintBars colouring only the bars below the chosen level
RECURSIVE paintBarsBelow(_, _, _)
paintBarsBelow(colors, s, k) ==
    IF k > Len(strengthLevels) THEN [colors |-> colors, thrown |-> FALSE]
    ELSE IF strengthLevels[k] < s
         THEN IF s \in DOMAIN strengthProbs
              THEN paintBarsBelow([colors EXCEPT ![k] = strengthProbs[s].barColor], s, k + 1)
              ELSE [colors |-> colors, thrown |-> TRUE]
         ELSE paintBarsBelow([colors EXCEPT ![k] = ""], s, k + 1)

\* this.dom.strengthLevels.forEach(...) from bar k on: the colours of the
\* bars, and whether reading strengthProbs[this.strength].barColor threw
\* (forEach stops at the first throw, before that bar is assigned)
RECURSIVE paintBars(_, _, _)
paintBars(colors, s, k) ==
    IF k > Len(strengthLevels) THEN [colors |-> colors, thrown |-> FALSE]
    ELSE IF strengthLevels[k] <= s
         THEN IF s \in DOMAIN strengthProbs
              THEN paintBars([colors EXCEPT ![k] = strengthProbs[s].barColor], s, k + 1)
              ELSE [colors |-> colors, thrown |-> TRUE]
         ELSE paintBars([colors EXCEPT ![k] = ""], s, k + 1)

\* selectCheckBox: the new passwordParts, read from the checkboxes
selectCheckBox(parts, boxes) ==
    [ j \in DOMAIN parts |-> IF boxes[j] THEN TRUE ELSE FALSE ]

\* setCharacterLength: the new charLength, read from the slider
sliderLength(value) == parseInt(value)

\* constructedLength of a constructor that does not read the slider
constructedLengthOfArg(arg, value) == arg

\* constructor: charLength is set from the argument and then overwritten by
\* the call of setCharacterLength
constructedLength(arg, value) == sliderLength(value)

(***************************************************************************)
(* Initial state: the state after `new PasswordGenerator(7, dom)`.         *)
(***************************************************************************)
Init ==
    \E boxes \in [0..3 -> BOOLEAN], value \in SliderValues :
        /\ checkboxes = boxes
        /\ lengthSlider = value
        /\ passwordParts = selectCheckBox([ j \in 0..3 |-> FALSE ], boxes)
        /\ charLength = constructedLength(CtorCharLength, value)
        /\ passLength = value
        /\ strength = 1
        /\ strengthDesc = titleText(1)
        /\ barColor = paintBars([ k \in 1..Len(strengthLevels) |-> "" ], 1, 1).colors
        /\ passRes = << >>
        /\ outputted = FALSE
        /\ pending = 0
        /\ clipWrites = << >> /\ alerts = 0 /\ thrown = FALSE
        /\ pc = "idle" /\ i = 0 /\ password = << >>
        /\ letterChosen = << >> /\ numOrSymbol = << >> /\ choice = 0

(***************************************************************************)
(* The event handlers, each one step.                                      *)
(***************************************************************************)
\* a click on a strength bar, or a direct call: setPasswordStrength(s)
SetPasswordStrength(s) ==
    /\ pc = "idle"
    /\ strengthDesc' = titleText(s)
    /\ strength' = s
    /\ LET r == paintBars(barColor, s, 1)
       IN  barColor' = r.colors /\ thrown' = r.thrown
    /\ clipWrites' = << >> /\ alerts' = 0
    /\ UNCHANGED << charLength, passwordParts, checkboxes, lengthSlider,
                    passLength, passRes, outputted, pending, genVars >>

\* a click on checkbox j: the browser toggles it and dispatches the click to
\* selectCheckBox
ClickCheckBox(j) ==
    /\ pc = "idle"
    /\ checkboxes' = [checkboxes EXCEPT ![j] = ~checkboxes[j]]
    /\ passwordParts' = selectCheckBox(passwordParts, checkboxes')
    /\ clipWrites' = << >> /\ alerts' = 0 /\ thrown' = FALSE
    /\ UNCHANGED << charLength, strength, lengthSlider, passLength,
                    strengthDesc, barColor, passRes, outputted, pending, genVars >>

\* the slider is moved to another value (the handler has not run yet)
MoveSlider(value) ==
    /\ pc = "idle"
    /\ value # lengthSlider
    /\ lengthSlider' = value
    /\ UNCHANGED << config, checkboxes, passLength, strengthDesc, barColor,
                    passRes, outputted, pending, effectVars, genVars >>

\* SetCharacterLength also clearing the password shown
SetCharacterLengthClearing ==
    /\ pc = "idle"
    /\ charLength' = sliderLength(lengthSlider)
    /\ passLength' = lengthSlider
    /\ passRes' = << >>
    /\ clipWrites' = << >> /\ alerts' = 0 /\ thrown' = FALSE
    /\ UNCHANGED << passwordParts, strength, checkboxes, lengthSlider,
                    strengthDesc, barColor, outputted, pending, genVars >>

\* the slider's input event: setCharacterLength()
SetCharacterLength ==
    /\ pc = "idle"
    /\ charLength' = sliderLength(lengthSlider)
    /\ passLength' = lengthSlider
    /\ clipWrites' = << >> /\ alerts' = 0 /\ thrown' = FALSE
    /\ UNCHANGED << passwordParts, strength, checkboxes, lengthSlider,
                    strengthDesc, barColor, passRes, outputted, pending, genVars >>

\* GeneratePassword without the setTimeout that reverts the flash
GeneratePasswordNoRevert ==
    /\ pc = "idle"
    /\ pending < MaxPending
    /\ UNCHANGED << config, checkboxes, lengthSlider, passLength,
                    strengthDesc, barColor, pending, genVars >>
    /\ clipWrites' = << >> /\ alerts' = 0 /\ thrown' = FALSE
    /\ outputted' = TRUE
    /\ \E pw \in Generated(charLength, strength, passwordParts) : passRes' = pw

\* a click on the generate button: generatePassword(), with the loop taken
\* as one step.  With a strength outside the table the first iteration throws
\* on strengthProbs[this.strength].letter, before anything is written.
GeneratePassword ==
    /\ pc = "idle"
    /\ pending < MaxPending
    /\ UNCHANGED << config, checkboxes, lengthSlider, passLength,
                    strengthDesc, barColor, genVars >>
    /\ clipWrites' = << >> /\ alerts' = 0
    /\ IF charLength > 0 /\ strength \notin DOMAIN strengthProbs
       THEN /\ thrown' = TRUE
            /\ UNCHANGED << passRes, outputted, pending >>
       ELSE /\ thrown' = FALSE
            /\ outputted' = TRUE
            /\ pending' = pending + 1
            /\ \E pw \in Generated(charLength, strength, passwordParts) :
                   passRes' = pw

\* the callback of setTimeout fires: classList.remove('outputted')
RevertOutputted ==
    /\ pc = "idle"
    /\ pending > 0
    /\ outputted' = FALSE
    /\ pending' = pending - 1
    /\ clipWrites' = << >> /\ alerts' = 0 /\ thrown' = FALSE
    /\ UNCHANGED << config, checkboxes, lengthSlider, passLength,
                    strengthDesc, barColor, passRes, genVars >>

\* CopyToClipboard without the test `if (copyPass)`
CopyToClipboardUnchecked ==
    /\ pc = "idle"
    /\ clipWrites' = << passRes >> /\ alerts' = 1
    /\ thrown' = FALSE
    /\ UNCHANGED << config, domVars, pending, genVars >>

\* a click on the clipboard icon: copyToClipboard()
CopyToClipboard ==
    /\ pc = "idle"
    /\ LET copyPass == passRes
       IN  IF copyPass # << >>
           THEN clipWrites' = << copyPass >> /\ alerts' = 1
           ELSE clipWrites' = << >> /\ alerts' = 0
    /\ thrown' = FALSE
    /\ UNCHANGED << config, domVars, pending, genVars >>

\* the events of the page: the bars pass their own values, 0..3
Next ==
    \/ \E s \in PasswordStrengths : SetPasswordStrength(s)
    \/ \E j \in 0..3 : ClickCheckBox(j)
    \/ \E value \in SliderValues : MoveSlider(value)
    \/ SetCharacterLength
    \/ GeneratePassword
    \/ RevertOutputted
    \/ CopyToClipboard

Spec == Init /\ [][Next]_vars

(***************************************************************************)
(* generatePassword step by step: the position of the call (pc) and its    *)
(* locals.  A local holds a value only while it is live: the choice of     *)
(* chooseNumOrSymbol is drawn and tested in the same step (a rejected draw *)
(* is overwritten before it is read), and the candidates are dropped at    *)
(* the end of the iteration that declared them.                            *)
(***************************************************************************)
\* let password = ""; let i = 0
GenStart ==
    /\ pc = "idle"
    /\ pending < MaxPending
    /\ pc' = "loop" /\ i' = 0 /\ password' = << >>
    /\ UNCHANGED << letterChosen, numOrSymbol, choice >>
    /\ UNCHANGED << config, domVars, pending, effectVars >>

\* i < this.charLength holds: enter the body, calling chooseLetter
LoopEnter ==
    /\ pc = "loop"
    /\ i < charLength
    /\ pc' = "letter"
    /\ UNCHANGED << i, password, letterChosen, numOrSymbol, choice >>
    /\ UNCHANGED << config, domVars, pending, effectVars >>

\* chooseLetter up to the loop: return "" or draw the first case
LetterEnter ==
    /\ pc = "letter"
    /\ IF noLetter(passwordParts)
       THEN letterChosen' = << >> /\ pc' = "numsym" /\ UNCHANGED choice
       ELSE /\ \E c \in RandInt(1) : choice' = c
            /\ pc' = "letterLoop"
            /\ UNCHANGED letterChosen
    /\ UNCHANGED << i, password, numOrSymbol >>
    /\ UNCHANGED << config, domVars, pending, effectVars >>

\* while (!this.passwordParts[choice]) choice = ...: draw the case again
LetterRetry ==
    /\ pc = "letterLoop"
    /\ ~caseAccepted(passwordParts, choice)
    /\ \E c \in RandInt(1) : choice' = c
    /\ UNCHANGED << pc, i, password, letterChosen, numOrSymbol >>
    /\ UNCHANGED << config, domVars, pending, effectVars >>

\* the loop of chooseLetter exits: draw the letter and return it
LetterExit ==
    /\ pc = "letterLoop"
    /\ caseAccepted(passwordParts, choice)
    /\ \E k \in LetterDraws : letterChosen' = letterOf(choice, k)
    /\ choice' = 0
    /\ pc' = "numsym"
    /\ UNCHANGED << i, password, numOrSymbol >>
    /\ UNCHANGED << config, domVars, pending, effectVars >>

\* chooseNumOrSymbol up to the loop: return "" or enter `while (true)`
NumSymEnter ==
    /\ pc = "numsym"
    /\ IF noNumOrSymbol(passwordParts)
       THEN numOrSymbol' = << >> /\ pc' = "select"
       ELSE pc' = "numsymLoop" /\ UNCHANGED numOrSymbol
    /\ UNCHANGED << i, password, letterChosen, choice >>
    /\ UNCHANGED << config, domVars, pending, effectVars >>

\* one iteration of `while (true)` whose draw is rejected: the loop goes on
NumSymRetry ==
    /\ pc = "numsymLoop"
    /\ \E c \in RandInt(99) : ~choiceAccepted(strength, passwordParts, c)
    /\ UNCHANGED genVars
    /\ UNCHANGED << config, domVars, pending, effectVars >>

\* one iteration of `while (true)` whose draw is accepted: break, and
\* return the symbol or the digit
NumSymExit ==
    /\ pc = "numsymLoop"
    /\ \E c \in RandInt(99) :
          /\ choiceAccepted(strength, passwordParts, c)
          /\ \E x \in SymbolDraws, d \in DigitDraws :
                numOrSymbol' = numOrSymbolOf(strength, c, x, d)
    /\ pc' = "select"
    /\ UNCHANGED << i, password, letterChosen, choice >>
    /\ UNCHANGED << config, domVars, pending, effectVars >>

\* draw the selector, append the candidate it selects, i++
Select ==
    /\ pc = "select"
    /\ \E sel \in RandInt(99) :
          password' = password \o appended(strength, sel, letterChosen, numOrSymbol)
    /\ i' = i + 1
    /\ letterChosen' = << >> /\ numOrSymbol' = << >>
    /\ pc' = "loop"
    /\ UNCHANGED choice
    /\ UNCHANGED << config, domVars, pending, effectVars >>

\* i < this.charLength fails: show the password, flash, schedule the revert
Finish ==
    /\ pc = "loop"
    /\ ~(i < charLength)
    /\ passRes' = password
    /\ outputted' = TRUE
    /\ pending' = pending + 1
    /\ pc' = "done"
    /\ UNCHANGED << i, password, letterChosen, numOrSymbol, choice >>
    /\ UNCHANGED << config, checkboxes, lengthSlider, passLength,
                    strengthDesc, barColor, effectVars >>

\* one call of generatePassword from every configuration of the four
\* strengths, the sixteen toggle sets and the lengths 0..MaxLen
InitGen ==
    \E st \in PasswordStrengths, parts \in [0..3 -> BOOLEAN], n \in 0..MaxLen :
        /\ strength = st
        /\ passwordParts = parts
        /\ charLength = n
        /\ checkboxes = parts
        /\ lengthSlider = toString(n)
        /\ passLength = toString(n)
        /\ strengthDesc = titleText(st)
        /\ barColor = paintBars([ k \in 1..Len(strengthLevels) |-> "" ], st, 1).colors
        /\ passRes = << >>
        /\ outputted = FALSE
        /\ pending = 0
        /\ clipWrites = << >> /\ alerts = 0 /\ thrown = FALSE
        /\ pc = "idle" /\ i = 0 /\ password = << >>
        /\ letterChosen = << >> /\ numOrSymbol = << >> /\ choice = 0

NextGen ==
    \/ GenStart
    \/ LoopEnter
    \/ LetterEnter
    \/ LetterRetry
    \/ LetterExit
    \/ NumSymEnter
    \/ NumSymRetry
    \/ NumSymExit
    \/ Select
    \/ Finish

SpecGen == InitGen /\ [][NextGen]_vars

\* the random source is fair: a loop that some draw exits is not left
\* running for ever, and the call itself is not suspended
FairGen == SpecGen /\ WF_vars(NextGen)

\* every public call, with any ordinal: what a direct caller can do
NextApi ==
    \/ \E s \in Ordinals : SetPasswordStrength(s)
    \/ \E j \in 0..3 : ClickCheckBox(j)
    \/ \E value \in SliderValues : MoveSlider(value)
    \/ SetCharacterLength
    \/ GeneratePassword
    \/ RevertOutputted
    \/ CopyToClipboard

SpecApi == Init /\ [][NextApi]_vars

\* the event loop runs every callback whose timer has expired
FairSpec == Spec /\ WF_vars(RevertOutputted)

(***************************************************************************)
(* Properties.                                                             *)
(***************************************************************************)
someClass(parts) == \E j \in 0..3 : parts[j]

\* C1: a finished generation shows a string of exactly charLength characters
\* when some class is enabled, and the empty string when none is (so the
\* empty string for charLength 0, whatever the toggles)
LengthExact ==
    pc = "done" =>
        /\ someClass(passwordParts) => Len(passRes) = charLength
        /\ ~someClass(passwordParts) => passRes = << >>
        /\ charLength = 0 => passRes = << >>

LengthExactWitness ==
    /\ pc = "done"
    /\ charLength = MaxLen
    /\ Len(passRes) = MaxLen
    /\ passwordParts[0] /\ passwordParts[3] /\ ~passwordParts[1] /\ ~passwordParts[2]

\* every character of s is of a class that parts enables
OnlyEnabled(s, parts) ==
    \A k \in 1..Len(s) :
        /\ IsUpper(s[k]) \/ IsLower(s[k]) \/ IsDigit(s[k]) \/ IsSymbol(s[k])
        /\ IsUpper(s[k]) => parts[0]
        /\ IsLower(s[k]) => parts[1]
        /\ IsDigit(s[k]) => parts[2]
        /\ IsSymbol(s[k]) => parts[3]

\* over the whole range of each draw: a letter drawn as lower case is lower
\* case, one drawn as upper case is upper case, a draw in the symbol band is
\* a symbol and one outside it a digit
AlphabetsInClass ==
    /\ \A k \in RandInt(25) :
          IsLower(letterOf(1, k)[1]) /\ IsUpper(letterOf(0, k)[1])
    /\ \A c \in RandInt(99), x \in RandInt(Len(symbols) - 1), d \in RandInt(9) :
          LET r == numOrSymbolOf(strength, c, x, d)
          IN  /\ Len(r) = 1
              /\ IF c <= strengthProbs[strength].symbol
                 THEN IsSymbol(r[1]) ELSE IsDigit(r[1])

\* C2: every character generated, and every character shown, belongs to an
\* enabled class: upper case only if uppercase is enabled, lower case only if
\* lowercase is, a digit only if numbers is, a symbol only if symbols is
OnlyEnabledClasses ==
    /\ OnlyEnabled(password, passwordParts)
    /\ OnlyEnabled(letterChosen, passwordParts)
    /\ OnlyEnabled(numOrSymbol, passwordParts)
    /\ OnlyEnabled(passRes, passwordParts)
    /\ pc = "idle" => AlphabetsInClass

OnlyEnabledWitness ==
    /\ pc = "done"
    /\ Len(passRes) = MaxLen
    /\ passwordParts[0] /\ passwordParts[2] /\ ~passwordParts[1] /\ ~passwordParts[3]
    /\ \E k \in 1..Len(passRes) : IsUpper(passRes[k])
    /\ \E k \in 1..Len(passRes) : IsDigit(passRes[k])

\* C3: a call of setPasswordStrength with an ordinal outside 0..3 throws and
\* leaves the stored strength, the label and the bar colours as they were
InvalidOrdinalRejected ==
    [][ \A s \in Ordinals \ PasswordStrengths :
            SetPasswordStrength(s) =>
                /\ thrown'
                /\ UNCHANGED << strength, strengthDesc, barColor >> ]_vars

\* C4: a loop that is entered has a draw that exits it, and under a fair
\* random source the call finishes, after exactly charLength iterations
GenerationTerminates ==
    /\ [](pc = "letterLoop" =>
            \E c \in RandInt(1) : caseAccepted(passwordParts, c))
    /\ [](pc = "numsymLoop" =>
            \E c \in RandInt(99) : choiceAccepted(strength, passwordParts, c))
    /\ <>(pc = "done" /\ i = charLength)

GenerationTerminatesWitness ==
    /\ pc = "done"
    /\ i = charLength
    /\ charLength = MaxLen
    /\ passwordParts[1] /\ passwordParts[2] /\ ~passwordParts[0] /\ ~passwordParts[3]
    /\ \E k \in 1..Len(passRes) : IsLower(passRes[k])
    /\ \E k \in 1..Len(passRes) : IsDigit(passRes[k])

\* C5: charLength is a non-negative integer, the value of the slider as the
\* last call of setCharacterLength read it (which the length output shows)
LengthIsLastRead ==
    /\ charLength \in Nat
    /\ charLength = parseInt(passLength)

\* the slider has moved since it was read: charLength is still the value read
LengthIsLastReadWitness ==
    /\ lengthSlider # passLength
    /\ charLength = parseInt(passLength)
    /\ charLength # parseInt(lengthSlider)
    /\ passRes # << >>

\* C6: setPasswordStrength(s), for s in 0..3 and from any state, stores s,
\* shows the s-th label, gives the bars of ordinal <= s the s-th colour and
\* clears the colour of the bars of ordinal > s
StrengthShown ==
    [][ \A s \in PasswordStrengths :
            SetPasswordStrength(s) =>
                /\ strength' = s
                /\ strengthDesc' = << "WEAK", "MEDIUM", "STRONG", "EXTREME" >>[s + 1]
                /\ \A k \in 1..Len(strengthLevels) :
                      barColor'[k] =
                          IF strengthLevels[k] <= s
                          THEN << "green", "yellow", "orange", "red" >>[s + 1]
                          ELSE "" ]_vars

\* weak chosen after a stronger level: the bars above it lost their colour
StrengthShownWitness ==
    /\ strength = 0
    /\ strengthDesc = "WEAK"
    /\ barColor = << "green", "", "", "" >>

\* the rule of the specification: the letter candidate exactly when it is
\* non-empty and the selector is within the letter percentage or the other
\* candidate is empty
ruleAppended(st, sel, letter, numSym) ==
    IF letter # << >> /\ (sel <= strengthProbs[st].letter \/ numSym = << >>)
    THEN letter
    ELSE numSym

\* C7: for the candidates of every iteration and every selector of 0..99,
\* the condition of the code appends what the rule appends
AppendsAsRule ==
    pc = "select" =>
        \A sel \in RandInt(99) :
            appended(strength, sel, letterChosen, numOrSymbol)
                = ruleAppended(strength, sel, letterChosen, numOrSymbol)

AppendsAsRuleWitness ==
    /\ pc = "select"
    /\ strength = 2
    /\ letterChosen # << >>
    /\ numOrSymbol # << >>
    /\ i = MaxLen - 1

\* C8: generatePassword leaves strength, toggles and charLength alone; each
\* setter leaves the other configuration fields and the shown password alone
\* (each line reads "the fields are unchanged, or the step is not one of the
\* handler")
FrameOfHandlers ==
    [][ /\ \/ UNCHANGED << strength, passwordParts, charLength >>
           \/ ~GeneratePassword
        /\ \/ UNCHANGED << passwordParts, charLength, passRes, passLength >>
           \/ ~(\E s \in PasswordStrengths : SetPasswordStrength(s))
        /\ \/ UNCHANGED << strength, charLength, passRes, strengthDesc,
                           barColor, passLength >>
           \/ ~(\E j \in 0..3 : ClickCheckBox(j))
        /\ \/ UNCHANGED << strength, passwordParts, passRes, strengthDesc,
                           barColor >>
           \/ ~SetCharacterLength ]_vars

\* the configuration has changed since the password shown was generated
FrameOfHandlersWitness ==
    /\ passRes # << >>
    /\ charLength = 0
    /\ strength = 3
    /\ ~someClass(passwordParts)

\* C9: every generatePassword sets the flag and schedules one revert; the
\* flag is set only while a revert is pending; and a set flag is eventually
\* cleared
FlashReverts ==
    /\ [][ (outputted' /\ pending' = pending + 1) \/ ~GeneratePassword ]_vars
    /\ [](outputted => pending > 0)
    /\ (outputted ~> ~outputted)

\* generate was clicked again before the revert of the earlier click fired
FlashRevertsWitness ==
    /\ outputted
    /\ pending = 2

\* C10: copyToClipboard writes the shown password when it is not empty, and
\* raises one alert; it writes nothing and raises no alert when it is empty;
\* it changes neither the configuration nor the shown password; and no
\* handler other than generatePassword changes the shown password, which is
\* therefore the string of the last generation
CopiesLastGenerated ==
    [][ /\ CopyToClipboard =>
              /\ passRes # << >> => (clipWrites' = << passRes >> /\ alerts' = 1)
              /\ passRes = << >> => (clipWrites' = << >> /\ alerts' = 0)
              /\ UNCHANGED << config, passRes >>
        /\ \/ UNCHANGED passRes
           \/ ~ \/ \E s \in PasswordStrengths : SetPasswordStrength(s)
                \/ \E j \in 0..3 : ClickCheckBox(j)
                \/ \E value \in SliderValues : MoveSlider(value)
                \/ SetCharacterLength
                \/ RevertOutputted
                \/ CopyToClipboard ]_vars

\* the password copied was generated before the configuration changed
CopiesLastGeneratedWitness ==
    /\ clipWrites = << passRes >>
    /\ alerts = 1
    /\ Len(passRes) # charLength
    /\ ~someClass(passwordParts)

\* every character of s is a letter
OnlyLetters(s) == \A k \in 1..Len(s) : IsLetter(s[k])

\* C11: at weak with a letter class enabled every selector of 0..99 selects
\* the letter candidate, so what is generated and shown holds letters only,
\* also when numbers or symbols are enabled; at medium, strong and very
\* strong, with a letter class and a digit/symbol class enabled, some
\* selector appends the letter and some selector appends the digit or symbol,
\* at every position
WeakIsLettersOnly ==
    /\ (strength = 0 /\ ~noLetter(passwordParts)) =>
          /\ OnlyLetters(password)
          /\ pc = "done" => (OnlyLetters(passRes) /\ Len(passRes) = charLength)
          /\ pc = "select" =>
                /\ letterChosen # << >>
                /\ \A sel \in RandInt(99) :
                      appended(strength, sel, letterChosen, numOrSymbol) = letterChosen
    /\ (/\ strength \in 1..3
        /\ ~noLetter(passwordParts)
        /\ ~noNumOrSymbol(passwordParts)
        /\ pc = "select") =>
          /\ letterChosen # << >> /\ numOrSymbol # << >>
          /\ letterChosen # numOrSymbol
          /\ \E sel \in RandInt(99) :
                appended(strength, sel, letterChosen, numOrSymbol) = letterChosen
          /\ \E sel \in RandInt(99) :
                appended(strength, sel, letterChosen, numOrSymbol) = numOrSymbol

\* a weak password of full length, generated with all four classes enabled
WeakIsLettersOnlyWitness ==
    /\ pc = "done"
    /\ strength = 0
    /\ \A j \in 0..3 : passwordParts[j]
    /\ Len(passRes) = MaxLen
    /\ OnlyLetters(passRes)

====
